---- MODULE Spec2Model ----
(***************************************************************************)
(* Inventory ledger and transaction engine of the Sparkle back office:     *)
(* the item rows, the StockMovement audit log, sales and their voids,      *)
(* purchase orders and the CSV import, as the request handlers of          *)
(* server/app/api/v1 write them.                                           *)
(*                                                                         *)
(* Quantities and stock levels are integers (one unit = the smallest       *)
(* quantity step a run uses); money is an integer amount.  Row ids (UUIDs  *)
(* in the code) are the SKU for an item, the order number for a purchase   *)
(* order, and the position in the table for a sale or a customer.          *)
(***************************************************************************)
EXTENDS Integers, Sequences, FiniteSets, TLC

VARIABLES
    items,       \* table inventory_items : function from the SKUs in use to rows
    movements,   \* table stock_movements : Seq of rows in creation order
    sales,       \* table sales (with its sale_items) : Seq of rows
    orders,      \* table purchase_orders (with its lines) : order number -> row
    customers,   \* table customers : Seq of rows
    response,    \* outcome of the request handled last
    sessions     \* per in-flight request: its SQLAlchemy session (concurrent runs)

vars == <<items, movements, sales, orders, customers, response, sessions>>

(***************************************************************************)
(* Bounds of the model and the small sets the requests are drawn from.     *)
(***************************************************************************)
MaxMovements == 2                    \* rows the stock_movements table may hold

None == "None"                       \* Python None / SQL NULL (a NULL id is 0)
Skus == {"SKU-1", "SKU-2"}
CreateStocks == {0, 2}               \* current_stock of a created item
AdjustQuantities == {-1, 2}          \* StockAdjustment.quantity (signed)
SaleQuantities == {1, 2}             \* SaleItemCreate.quantity (> 0)
ImportStocks == {<<>>, <<"0", ".", "0", "0", "3">>}  \* the Stock cell of a CSV row

(***************************************************************************)
(* Helpers                                                                 *)
(***************************************************************************)
RECURSIVE SumOver(_, _)
\* the sum of f[k] over the positions k of the sequence f
SumOver(f, n) == IF n = 0 THEN 0 ELSE SumOver(f, n - 1) + f[n]

SeqSum(f) == SumOver(f, Len(f))

\* the table t with the row r stored under the key k (INSERT or UPDATE)
Put(t, k, r) == [x \in DOMAIN t \cup {k} |-> IF x = k THEN r ELSE t[x]]

EmptyTable == [x \in {} |-> None]

ItemIds == DOMAIN items

Resp(op, status, detail, ref) ==
    [op |-> op, status |-> status, detail |-> detail, ref |-> ref]

(***************************************************************************)
(* StockMovement(...) as the handlers build it.                            *)
(***************************************************************************)
StockMovement(item_id, movement_type, quantity, stock_before, stock_after, reference_type, reference_id) ==
    [item_id |-> item_id, movement_type |-> movement_type,
     quantity |-> quantity, stock_before |-> stock_before,
     stock_after |-> stock_after, reference_type |-> reference_type,
     reference_id |-> reference_id]

(***************************************************************************)
(* get_db: a request whose handler raises ends in session.rollback(), so   *)
(* what its session holds (pending) is dropped and the table stays as      *)
(* committed.                                                              *)
(***************************************************************************)
\* (mutant) the pending changes of a failed request reach the table
NotRolledBack(committed, pending) == pending

RolledBack(committed, pending) == committed

(***************************************************************************)
(* POST /inventory/items                                                   *)
(***************************************************************************)
\* InventoryItem(**fields) with the column defaults of the model class
\* (name "Item", selling price 750.00, location 1, no supplier and no stock
\* levels where the request of a run does not vary them; an Optional column
\* is <<>> for NULL or <<v>>)
InventoryItem(sku, current_stock, allow_negative_stock) ==
    [sku |-> sku, name |-> "Item", location_id |-> 1, selling_price |-> 750000,
     current_stock |-> current_stock, reserved_stock |-> 0,
     allow_negative_stock |-> allow_negative_stock, is_active |-> TRUE,
     is_taxable |-> TRUE, tax_rate |-> 0, supplier_id |-> None,
     min_stock_level |-> <<>>, max_stock_level |-> <<>>,
     reorder_point |-> <<>>, reorder_quantity |-> <<>>]

create_inventory_item(sku, current_stock, allow_negative_stock) ==
    /\ IF sku \in ItemIds
       THEN /\ response' = Resp("create_inventory_item", 409, "Conflict", sku)
            /\ UNCHANGED items
       ELSE /\ items' = Put(items, sku,
                   InventoryItem(sku, current_stock, allow_negative_stock))
            /\ response' = Resp("create_inventory_item", 201, "ok", sku)
    /\ UNCHANGED <<movements, sales, orders, customers, sessions>>

(***************************************************************************)
(* POST /inventory/items/{item_id}/adjust                                  *)
(***************************************************************************)
\* (mutant) the adjustment without the negative-stock check
AdjustOutcomeUnchecked(row, item_id, quantity, movement_type) ==
    LET stock_before == row.current_stock
        new_stock == stock_before + quantity
    IN [ok |-> TRUE,
        row |-> [row EXCEPT !.current_stock = new_stock],
        movement |-> StockMovement(item_id, movement_type, quantity,
                                   stock_before, new_stock, None, 0)]

\* the new row value and the movement, or the rejection
AdjustOutcome(row, item_id, quantity, movement_type) ==
    LET stock_before == row.current_stock
        new_stock == stock_before + quantity
    IN IF new_stock < 0 /\ ~row.allow_negative_stock
       THEN [ok |-> FALSE]
       ELSE [ok |-> TRUE,
             row |-> [row EXCEPT !.current_stock = new_stock],
             movement |-> StockMovement(item_id, movement_type, quantity,
                                        stock_before, new_stock, None, 0)]

adjust_stock(item_id, quantity, movement_type) ==
    /\ IF item_id \notin ItemIds
       THEN /\ response' = Resp("adjust_stock", 404, "NotFound", item_id)
            /\ UNCHANGED <<items, movements>>
       ELSE LET out == AdjustOutcome(items[item_id], item_id, quantity, movement_type)
            IN IF ~out.ok
               THEN /\ response' = Resp("adjust_stock", 400, "InsufficientStock", item_id)
                    /\ UNCHANGED <<items, movements>>
               ELSE /\ items' = [items EXCEPT ![item_id] = out.row]
                    /\ movements' = Append(movements, out.movement)
                    /\ response' = Resp("adjust_stock", 200, "ok", item_id)
    /\ UNCHANGED <<sales, orders, customers, sessions>>

(***************************************************************************)
(* POST /inventory/import : header check, the row loop and the final      *)
(* commit.  The file is its normalized header and its rows; a row gives    *)
(* the cell under each of the columns SKU, Name, Selling Price, Stock and  *)
(* Location.                                                               *)
(***************************************************************************)
\* A numeric cell is its text, a sequence of characters; "" is <<>>.  A
\* number read from text is held in thousandths (Numeric(12, 3)).  An
\* Optional[float] is <<>> (None) or <<v>>.
DigitChars == <<"0", "1", "2", "3", "4", "5", "6", "7", "8", "9">>
IsDigit(c) == \E d \in 1 .. 10 : DigitChars[d] = c
DigitValue(c) == (CHOOSE d \in 1 .. 10 : DigitChars[d] = c) - 1

RECURSIVE NatOf(_)
\* the number a string of digits writes
NatOf(ds) ==
    IF ds = <<>> THEN 0
    ELSE NatOf(SubSeq(ds, 1, Len(ds) - 1)) * 10 + DigitValue(ds[Len(ds)])

RECURSIVE StripChars(_)
\* str.strip()
StripChars(s) ==
    IF s = <<>> THEN s
    ELSE IF s[1] = " " THEN StripChars(Tail(s))
    ELSE IF s[Len(s)] = " " THEN StripChars(SubSeq(s, 1, Len(s) - 1))
    ELSE s

\* str.replace(old, new) for single characters
Replace(s, old, new) == [k \in 1 .. Len(s) |-> IF s[k] = old THEN new ELSE s[k]]

\* float(s) on a text of digits, sign, "." and other characters: <<v>>, or
\* <<>> where Python raises ValueError (the texts of a run hold no exponent,
\* underscore, "inf" or "nan")
Float(s) ==
    LET signed == s # <<>> /\ s[1] \in {"-", "+"}
        body == IF signed THEN Tail(s) ELSE s
        dots == {k \in 1 .. Len(body) : body[k] = "."}
        ok == /\ \A k \in 1 .. Len(body) : IsDigit(body[k]) \/ body[k] = "."
              /\ \E k \in 1 .. Len(body) : IsDigit(body[k])
              /\ Cardinality(dots) <= 1
        p == IF dots = {} THEN Len(body) + 1 ELSE CHOOSE k \in dots : TRUE
        whole == SubSeq(body, 1, p - 1)
        frac == SubSeq(body, p + 1, Len(body)) \o <<"0", "0", "0">>
        v == NatOf(whole) * 1000 + NatOf(SubSeq(frac, 1, 3))
    IN IF ~ok THEN <<>>
       ELSE IF signed /\ s[1] = "-" THEN <<-v>> ELSE <<v>>

\* parse_float(value, default): the default for an empty cell and for a text
\* float() rejects once every "," is replaced by "."
parse_float(value, default) ==
    LET t == Replace(StripChars(value), ",", ".")
    IN IF value = <<>> THEN default
       ELSE IF Float(t) = <<>> THEN default ELSE Float(t)

\* str.strip() and str.lower() on the texts of a run
Strip(s) == CASE s = " SKU-1" -> "SKU-1" [] s = " " -> "" [] OTHER -> s
Lower(s) ==
    CASE s = "Main Store" -> "main store" [] s = "Nowhere" -> "nowhere" [] OTHER -> s

\* the names of the rows of table locations, lower-cased (the row's id is 1)
LocationNames == {"main store"}

TextColumns == {"sku", "name", "location"}
NumberColumns == {"stock", "min stock", "selling price"}
required_cols == {"sku", "name", "selling price"}

\* a data row: its cell under every column the file may have (the Min Stock
\* cell empty)
CsvRow(sku, name, selling_price, stock, location) ==
    [c \in TextColumns \cup NumberColumns |->
        CASE c = "sku" -> sku [] c = "name" -> name [] c = "location" -> location
          [] c = "stock" -> stock [] c = "selling price" -> selling_price
          [] c = "min stock" -> <<>>]

\* an upload: whether its bytes are UTF-8, its normalized header and its rows
CsvFile(utf8, fieldnames, rows) ==
    [utf8 |-> utf8, fieldnames |-> fieldnames, rows |-> rows]

\* the decode cascade: latin-1 decodes every byte string, so one encoding
\* always fits
used_encoding(file) == IF file.utf8 THEN "utf-8-sig" ELSE "latin-1"

\* row.get(column) / row.get(column, ""): a column the header lacks gives
\* None, here the empty text
Cell(file, row, c) ==
    IF c \in file.fieldnames THEN row[c]
    ELSE IF c \in TextColumns THEN "" ELSE <<>>

\* not any(v and str(v).strip() for v in row.values())
BlankRow(file, row) ==
    \A c \in file.fieldnames :
        IF c \in TextColumns THEN Strip(row[c]) = "" ELSE StripChars(row[c]) = <<>>

\* (a validation that accepts a Selling Price of zero or below)
RowErrorAnyPrice(file, row, default_location) ==
    LET selling_price_str == StripChars(Cell(file, row, "selling price"))
        selling_price == parse_float(selling_price_str, <<>>)
        loc_name == Lower(Strip(Cell(file, row, "location")))
    IN IF Strip(Cell(file, row, "sku")) = "" THEN "Missing or empty SKU"
       ELSE IF Strip(Cell(file, row, "name")) = "" THEN "Missing or empty Name"
       ELSE IF selling_price_str = <<>> THEN "Missing or empty Selling Price"
       ELSE IF selling_price = <<>> THEN "Invalid Selling Price"
       ELSE IF loc_name \notin LocationNames /\ default_location = 0
       THEN "Location not found"
       ELSE "ok"

\* the validation of one row: "ok" or the reason of its "Row N: ..." entry
RowError(file, row, default_location) ==
    LET selling_price_str == StripChars(Cell(file, row, "selling price"))
        selling_price == parse_float(selling_price_str, <<>>)
        loc_name == Lower(Strip(Cell(file, row, "location")))
    IN IF Strip(Cell(file, row, "sku")) = "" THEN "Missing or empty SKU"
       ELSE IF Strip(Cell(file, row, "name")) = "" THEN "Missing or empty Name"
       ELSE IF selling_price_str = <<>> THEN "Missing or empty Selling Price"
       ELSE IF selling_price = <<>> \/ selling_price[1] <= 0
       THEN "Invalid Selling Price"
       ELSE IF loc_name \notin LocationNames /\ default_location = 0
       THEN "Location not found"
       ELSE "ok"

\* item_data of a valid row
ItemData(file, row, default_location) ==
    [sku |-> Strip(Cell(file, row, "sku")),
     name |-> Strip(Cell(file, row, "name")),
     location_id |-> IF Lower(Strip(Cell(file, row, "location"))) \in LocationNames
                     THEN 1 ELSE default_location,
     current_stock |-> parse_float(Cell(file, row, "stock"), <<0>>)[1],
     min_stock_level |-> parse_float(Cell(file, row, "min stock"), <<>>),
     selling_price |->
         parse_float(StripChars(Cell(file, row, "selling price")), <<>>)[1]]

\* one pass of the row loop.  w.items are the committed rows as the session
\* holds them, w.added the new objects of db.add: the select of a SKU (no
\* autoflush) finds committed rows only
ImportRow(w, file, k, default_location) ==
    LET row == file.rows[k]
        error == RowError(file, row, default_location)
        d == ItemData(file, row, default_location)
    IN IF BlankRow(file, row) THEN w
       ELSE IF error # "ok"
       THEN [w EXCEPT !.errors = Append(@, [row |-> k + 1, reason |-> error])]
       ELSE IF d.sku \in DOMAIN w.items
       THEN [w EXCEPT !.items[d.sku] =
                          [@ EXCEPT !.name = d.name, !.location_id = d.location_id,
                                    !.current_stock = d.current_stock,
                                    !.min_stock_level =
                                        IF d.min_stock_level # <<>>
                                        THEN d.min_stock_level ELSE @,
                                    !.selling_price = d.selling_price],
                      !.updated_count = @ + 1]
       ELSE [w EXCEPT !.added = Append(@,
                          [InventoryItem(d.sku, d.current_stock, FALSE) EXCEPT
                               !.name = d.name, !.location_id = d.location_id,
                               !.min_stock_level = d.min_stock_level,
                               !.selling_price = d.selling_price]),
                      !.imported_count = @ + 1]

RECURSIVE ImportRows(_, _, _, _)
ImportRows(w, file, k, default_location) ==
    IF k > Len(file.rows) THEN w
    ELSE ImportRows(ImportRow(w, file, k, default_location), file, k + 1,
                    default_location)

\* db.commit(): the INSERTs of the new objects; two of one SKU break the
\* unique index and the commit raises
CommitFails(w) ==
    \E a, b \in 1 .. Len(w.added) : a # b /\ w.added[a].sku = w.added[b].sku

\* the table once the session's rows and new objects are written
Committed(w) ==
    [sku \in DOMAIN w.items \cup {w.added[a].sku : a \in 1 .. Len(w.added)} |->
        IF sku \in DOMAIN w.items THEN w.items[sku]
        ELSE w.added[CHOOSE a \in 1 .. Len(w.added) : w.added[a].sku = sku]]

import_inventory_csv(file, default_location) ==
    LET w == ImportRows([items |-> items, added |-> <<>>, imported_count |-> 0,
                         updated_count |-> 0, errors |-> <<>>],
                        file, 1, default_location)
    IN /\ IF ~(required_cols \subseteq file.fieldnames)
          THEN /\ response' = Resp("import_inventory_csv", 400, "MissingColumns", 0)
               /\ UNCHANGED items
          ELSE IF CommitFails(w)
          THEN /\ response' = Resp("import_inventory_csv", 400, "CommitFailed", 0)
               /\ items' = RolledBack(items, Committed(w))
          ELSE /\ items' = Committed(w)
               /\ response' = Resp("import_inventory_csv", 200, "ok",
                      [success |-> w.errors = <<>>,
                       imported_count |-> w.imported_count,
                       updated_count |-> w.updated_count,
                       errors |-> w.errors,
                       encoding_used |-> used_encoding(file)])
       /\ UNCHANGED <<movements, sales, orders, customers, sessions>>

(***************************************************************************)
(* DELETE /inventory/items/{item_id} : the soft delete.                    *)
(***************************************************************************)
delete_inventory_item(item_id) ==
    /\ IF item_id \notin ItemIds
       THEN /\ response' = Resp("delete_inventory_item", 404, "NotFound", item_id)
            /\ UNCHANGED items
       ELSE /\ items' = [items EXCEPT ![item_id].is_active = FALSE]
            /\ response' = Resp("delete_inventory_item", 204, "ok", item_id)
    /\ UNCHANGED <<movements, sales, orders, customers, sessions>>

(***************************************************************************)
(* GET /inventory/export : one CSV row per active item, numbers written    *)
(* as str() of the column's Decimal.                                       *)
(***************************************************************************)
RECURSIVE NatChars(_)
\* str(n) of a natural number
NatChars(n) ==
    IF n < 10 THEN <<DigitChars[n + 1]>>
    ELSE NatChars(n \div 10) \o <<DigitChars[(n % 10) + 1]>>

RECURSIVE ZeroPad(_, _)
ZeroPad(ds, n) == IF Len(ds) >= n THEN ds ELSE ZeroPad(<<"0">> \o ds, n)

\* str() of a Numeric(_, places) column holding v thousandths, places 2 or 3
DecimalChars(v, places) ==
    LET a == IF v < 0 THEN -v ELSE v
        u == IF places = 3 THEN a ELSE a \div 10
        scale == IF places = 3 THEN 1000 ELSE 100
        body == NatChars(u \div scale) \o <<".">> \o ZeroPad(NatChars(u % scale), places)
    IN IF v < 0 THEN <<"-">> \o body ELSE body

\* Location.name of the row with id 1
location_name == "Main Store"

\* item.min_stock_level or 0: the number 0 is written for NULL and for zero
ExportRow(item) ==
    [CsvRow(item.sku, item.name, DecimalChars(item.selling_price, 2),
            DecimalChars(item.current_stock, 3), location_name)
        EXCEPT !["min stock"] =
            IF item.min_stock_level = <<>> \/ item.min_stock_level[1] = 0
            THEN <<"0">> ELSE DecimalChars(item.min_stock_level[1], 3)]

\* the items the query returns: active, joined to their location, of the
\* user's location when the user has one (0: none)
Exported(user_location) ==
    {i \in ItemIds : /\ items[i].is_active
                     /\ items[i].location_id = 1
                     /\ user_location # 0 => items[i].location_id = user_location}

\* the query has no ORDER BY: the rows come in any order
export_inventory_csv(user_location) ==
    /\ \E order \in [1 .. Cardinality(Exported(user_location)) -> Exported(user_location)] :
          /\ \A a, b \in DOMAIN order : a # b => order[a] # order[b]
          /\ response' = Resp("export_inventory_csv", 200, "ok",
                 CsvFile(TRUE, TextColumns \cup NumberColumns,
                         [k \in DOMAIN order |-> ExportRow(items[order[k]])]))
    /\ UNCHANGED <<items, movements, sales, orders, customers, sessions>>

(***************************************************************************)
(* Customer.add_points / redeem_points / _update_tier                      *)
(***************************************************************************)
Customer(phone) ==
    [phone |-> phone, loyalty_points |-> 0, lifetime_points |-> 0,
     loyalty_tier |-> "bronze", total_purchases |-> 0, total_spent |-> 0]

\* POST /customers : the phone number is unique; the new row's id is its
\* position in the table
create_customer(phone) ==
    /\ IF \E c \in DOMAIN customers : customers[c].phone = phone
       THEN /\ response' = Resp("create_customer", 409, "Conflict", 0)
            /\ UNCHANGED customers
       ELSE /\ customers' = Append(customers, Customer(phone))
            /\ response' = Resp("create_customer", 201, "ok", Len(customers) + 1)
    /\ UNCHANGED <<items, movements, sales, orders, sessions>>

_update_tier(c) ==
    [c EXCEPT !.loyalty_tier =
        IF c.lifetime_points >= 50000 THEN "diamond"
        ELSE IF c.lifetime_points >= 15000 THEN "platinum"
        ELSE IF c.lifetime_points >= 5000 THEN "gold"
        ELSE IF c.lifetime_points >= 1000 THEN "silver"
        ELSE "bronze"]

add_points(c, points) ==
    _update_tier([c EXCEPT !.loyalty_points = @ + points,
                           !.lifetime_points = @ + points])

\* redeem_points: [ok, customer]
redeem_points(c, points) ==
    IF points > c.loyalty_points
    THEN [ok |-> FALSE, customer |-> c]
    ELSE [ok |-> TRUE, customer |-> [c EXCEPT !.loyalty_points = @ - points]]

\* POST /customers/{customer_id}/points : positive points are added, zero
\* and negative points are redeemed
adjust_loyalty_points(customer_id, points) ==
    /\ IF customer_id \notin DOMAIN customers
       THEN /\ response' = Resp("adjust_loyalty_points", 404, "NotFound", customer_id)
            /\ UNCHANGED customers
       ELSE IF points > 0
       THEN /\ customers' = [customers EXCEPT ![customer_id] = add_points(@, points)]
            /\ response' = Resp("adjust_loyalty_points", 200, "ok", customer_id)
       ELSE LET redeemed == redeem_points(customers[customer_id],
                                          IF points < 0 THEN -points ELSE points)
            IN IF ~redeemed.ok
               THEN /\ response' = Resp("adjust_loyalty_points", 400,
                                        "InsufficientPoints", customer_id)
                    /\ UNCHANGED customers
               ELSE /\ customers' = [customers EXCEPT ![customer_id] = redeemed.customer]
                    /\ response' = Resp("adjust_loyalty_points", 200, "ok", customer_id)
    /\ UNCHANGED <<items, movements, sales, orders, sessions>>

(***************************************************************************)
(* POST /sales : create_sale                                               *)
(***************************************************************************)
\* an Optional[float] is <<>> (None) or <<v>>; Python truthiness of it
Truthy(opt) == opt # <<>> /\ opt[1] # 0

\* (mutant) the cart loop body writing the quantity sold without its sign
SaleLineUnsigned(row, line) ==
    LET available == row.current_stock - row.reserved_stock
        line_subtotal == line.quantity * line.unit_price
        line_discount == line.discount_amount
                         + (line_subtotal * line.discount_percent) \div 100
        line_taxable == line_subtotal - line_discount
        line_tax == IF row.is_taxable
                    THEN (line_taxable * row.tax_rate) \div 100 ELSE 0
        line_total == line_taxable + line_tax
        stock_before == row.current_stock
        stock_after == stock_before - line.quantity
    IN IF line.quantity > available /\ ~row.allow_negative_stock
       THEN [ok |-> FALSE]
       ELSE [ok |-> TRUE,
             row |-> [row EXCEPT !.current_stock = stock_after],
             movement |-> StockMovement(line.item_id, "sale", line.quantity,
                                        stock_before, stock_after, None, 0),
             sale_item |-> [item_id |-> line.item_id, quantity |-> line.quantity,
                            unit_price |-> line.unit_price,
                            discount_amount |-> line_discount,
                            tax_amount |-> line_tax, line_total |-> line_total],
             line_subtotal |-> line_subtotal, line_tax |-> line_tax]

\* the body of the cart loop for one line, on the loaded item row
SaleLine(row, line) ==
    LET available == row.current_stock - row.reserved_stock
        line_subtotal == line.quantity * line.unit_price
        line_discount == line.discount_amount
                         + (line_subtotal * line.discount_percent) \div 100
        line_taxable == line_subtotal - line_discount
        line_tax == IF row.is_taxable
                    THEN (line_taxable * row.tax_rate) \div 100 ELSE 0
        line_total == line_taxable + line_tax
        stock_before == row.current_stock
        stock_after == stock_before - line.quantity
    IN IF line.quantity > available /\ ~row.allow_negative_stock
       THEN [ok |-> FALSE]
       ELSE [ok |-> TRUE,
             row |-> [row EXCEPT !.current_stock = stock_after],
             movement |-> StockMovement(line.item_id, "sale", -line.quantity,
                                        stock_before, stock_after, None, 0),
             sale_item |-> [item_id |-> line.item_id, quantity |-> line.quantity,
                            unit_price |-> line.unit_price,
                            discount_amount |-> line_discount,
                            tax_amount |-> line_tax, line_total |-> line_total],
             line_subtotal |-> line_subtotal, line_tax |-> line_tax]

\* the session's working state when the loop starts on the item table t
NewCart(t) ==
    [ok |-> TRUE, detail |-> "ok", failed_line |-> 0, items |-> t,
     moves |-> <<>>, sale_items |-> <<>>, subtotal |-> 0, total_tax |-> 0]

\* one pass of the cart loop, for line k, whose item the session holds
CartLine(w, lines, k) ==
    LET out == SaleLine(w.items[lines[k].item_id], lines[k])
    IN IF ~out.ok
       THEN [w EXCEPT !.ok = FALSE, !.detail = "InsufficientStock",
                      !.failed_line = k]
       ELSE [w EXCEPT !.items = [@ EXCEPT ![lines[k].item_id] = out.row],
                      !.moves = Append(@, out.movement),
                      !.sale_items = Append(@, out.sale_item),
                      !.subtotal = @ + out.line_subtotal,
                      !.total_tax = @ + out.line_tax]

\* the select of line k found no row
LineNotFound(w, k) ==
    [w EXCEPT !.ok = FALSE, !.detail = "ItemNotFound", !.failed_line = k]

RECURSIVE SaleLines(_, _, _)
\* the cart loop from line k on: the lines run in order on the session's
\* objects and the first failing line raises
SaleLines(w, lines, k) ==
    IF k > Len(lines) THEN w
    ELSE IF lines[k].item_id \notin DOMAIN w.items THEN LineNotFound(w, k)
    ELSE LET next == CartLine(w, lines, k)
         IN IF ~next.ok THEN next ELSE SaleLines(next, lines, k + 1)

\* the customer block: [ok, customers, points_earned]
SaleLoyalty(cs, request, total_amount) ==
    IF request.customer_id = 0 \/ request.customer_id \notin DOMAIN cs
    THEN [ok |-> TRUE, customers |-> cs, points_earned |-> 0]
    ELSE LET points_earned == total_amount \div 100
             awarded == add_points(cs[request.customer_id], points_earned)
             redeemed == IF request.points_redeemed > 0
                         THEN redeem_points(awarded, request.points_redeemed)
                         ELSE [ok |-> TRUE, customer |-> awarded]
             c == [redeemed.customer EXCEPT
                       !.total_purchases = @ + 1,
                       !.total_spent = @ + total_amount]
         IN [ok |-> redeemed.ok,
             customers |-> [cs EXCEPT ![request.customer_id] = c],
             points_earned |-> points_earned]

\* what the session holds when the handler reaches db.commit() (ok), or when
\* it raises (~ok)
SaleResult(w, request, cs) ==
    LET total_amount == w.subtotal - request.discount_amount + w.total_tax
        pays_cash == Truthy(request.amount_tendered)
                     /\ request.payment_method = "cash"
        loyalty == SaleLoyalty(cs, request, total_amount)
    IN IF ~w.ok
       THEN [ok |-> FALSE, detail |-> w.detail, failed_line |-> w.failed_line,
             items |-> w.items, moves |-> w.moves, customers |-> cs]
       ELSE IF pays_cash /\ request.amount_tendered[1] - total_amount < 0
       THEN [ok |-> FALSE, detail |-> "PaymentInsufficient", failed_line |-> 0,
             items |-> w.items, moves |-> w.moves, customers |-> cs]
       ELSE IF ~loyalty.ok
       THEN [ok |-> FALSE, detail |-> "InsufficientPoints", failed_line |-> 0,
             items |-> w.items, moves |-> w.moves, customers |-> loyalty.customers]
       ELSE [ok |-> TRUE, items |-> w.items, moves |-> w.moves,
             customers |-> loyalty.customers,
             sale |-> [status |-> "completed", items |-> w.sale_items,
                       customer_id |-> request.customer_id,
                       subtotal |-> w.subtotal, tax_amount |-> w.total_tax,
                       discount_amount |-> request.discount_amount,
                       total_amount |-> total_amount,
                       points_earned |-> loyalty.points_earned,
                       points_redeemed |-> request.points_redeemed]]

SaleOutcome(request) ==
    SaleResult(SaleLines(NewCart(items), request.items, 1), request, customers)

create_sale(request) ==
    LET out == SaleOutcome(request)
    IN /\ IF ~out.ok
          THEN /\ response' = Resp("create_sale", 400, out.detail, out.failed_line)
               /\ items' = RolledBack(items, out.items)
               /\ movements' = RolledBack(movements, movements \o out.moves)
               /\ customers' = RolledBack(customers, out.customers)
               /\ UNCHANGED sales
          ELSE /\ items' = out.items
               /\ movements' = movements \o out.moves
               /\ customers' = out.customers
               /\ sales' = Append(sales, out.sale)
               /\ response' = Resp("create_sale", 201, "ok", Len(sales) + 1)
       /\ UNCHANGED <<orders, sessions>>

(***************************************************************************)
(* POST /sales/{sale_id}/void : void_sale                                  *)
(***************************************************************************)
RECURSIVE VoidLines(_, _, _, _)
RECURSIVE VoidLinesDeducting(_, _, _, _)
\* (mutant) the reversal loop with the sign of the sale: it deducts again
VoidLinesDeducting(w, sale_id, lines, k) ==
    IF k > Len(lines) THEN w
    ELSE LET row == w.items[lines[k].item_id]
             stock_before == row.current_stock
             stock_after == stock_before - lines[k].quantity
         IN VoidLinesDeducting(
              [items |-> [w.items EXCEPT ![lines[k].item_id].current_stock = stock_after],
               moves |-> Append(w.moves,
                    StockMovement(lines[k].item_id, "return_in", -lines[k].quantity,
                                  stock_before, stock_after, "sale_void", sale_id))],
              sale_id, lines, k + 1)

\* the reversal loop from sale line k on: [items, moves]; lines is
\* sale.items, the collection the relationship Sale.items loads
VoidLines(w, sale_id, lines, k) ==
    IF k > Len(lines) THEN w
    ELSE IF lines[k].item_id \notin DOMAIN w.items
    THEN VoidLines(w, sale_id, lines, k + 1)
    ELSE LET row == w.items[lines[k].item_id]
             stock_before == row.current_stock
             stock_after == stock_before + lines[k].quantity
         IN VoidLines(
              [items |-> [w.items EXCEPT ![lines[k].item_id].current_stock = stock_after],
               moves |-> Append(w.moves,
                    StockMovement(lines[k].item_id, "return_in", lines[k].quantity,
                                  stock_before, stock_after, "sale_void", sale_id))],
              sale_id, lines, k + 1)

\* the loyalty reversal of the sale on the customer table
VoidLoyalty(cs, sale) ==
    IF sale.customer_id # 0 /\ sale.points_earned > 0
       /\ sale.customer_id \in DOMAIN cs
    THEN [cs EXCEPT ![sale.customer_id] =
             [@ EXCEPT !.loyalty_points = @ - sale.points_earned,
                       !.lifetime_points = @ - sale.points_earned]]
    ELSE cs

\* (mutant) the status check left out
NeverVoided(sale) == FALSE

\* the status check of void_sale
AlreadyVoided(sale) == sale.status = "void"

void_sale(sale_id) ==
    /\ IF sale_id \notin DOMAIN sales
       THEN /\ response' = Resp("void_sale", 404, "NotFound", sale_id)
            /\ UNCHANGED <<items, movements, sales, customers>>
       ELSE IF AlreadyVoided(sales[sale_id])
       THEN /\ response' = Resp("void_sale", 400, "AlreadyVoided", sale_id)
            /\ UNCHANGED <<items, movements, sales, customers>>
       ELSE LET w == VoidLines([items |-> items, moves |-> <<>>], sale_id,
                               sales[sale_id].items, 1)
            IN /\ items' = w.items
               /\ movements' = movements \o w.moves
               /\ customers' = VoidLoyalty(customers, sales[sale_id])
               /\ sales' = [sales EXCEPT ![sale_id].status = "void"]
               /\ response' = Resp("void_sale", 200, "ok", sale_id)
    /\ UNCHANGED <<orders, sessions>>

\* the carts of a run: lines of one unit price, no discount, paid by card
Line(item_id, quantity) ==
    [item_id |-> item_id, quantity |-> quantity, unit_price |-> 100,
     discount_percent |-> 0, discount_amount |-> 0]

SaleRequest(lines) ==
    [items |-> lines, discount_amount |-> 0, payment_method |-> "card",
     amount_tendered |-> <<>>, customer_id |-> 0, points_redeemed |-> 0]

\* a cart with a customer attached
CustomerSaleRequest(lines, customer_id, points_redeemed) ==
    [SaleRequest(lines) EXCEPT !.customer_id = customer_id,
                               !.points_redeemed = points_redeemed]

\* every cart of 1 .. n lines over the items S and the quantities Q
Carts(S, Q, n) ==
    UNION {[1 .. m -> {Line(i, q) : i \in S, q \in Q}] : m \in 1 .. n}

(***************************************************************************)
(* Purchase orders: POST, PATCH and DELETE /purchase-orders                *)
(***************************************************************************)
POStatus == {"pending", "ordered", "received", "cancelled", "partial"}

PurchaseOrderItem(item_in) ==
    [item_id |-> item_in.item_id, quantity |-> item_in.quantity,
     received_quantity |-> 0, unit_cost |-> item_in.unit_cost]

\* po_in = [supplier_id, order_number, expected_date, notes, items]; the
\* supplier exists
create_purchase_order(po_in) ==
    /\ IF po_in.order_number \in DOMAIN orders
       THEN /\ response' = Resp("create_purchase_order", 400, "Conflict",
                                po_in.order_number)
            /\ UNCHANGED orders
       ELSE IF \E k \in 1 .. Len(po_in.items) : po_in.items[k].item_id \notin ItemIds
       THEN /\ response' = Resp("create_purchase_order", 404, "NotFound",
                                po_in.order_number)
            /\ UNCHANGED orders
       ELSE /\ orders' = Put(orders, po_in.order_number,
                   [supplier_id |-> po_in.supplier_id, status |-> "pending",
                    expected_date |-> po_in.expected_date, notes |-> po_in.notes,
                    received_date |-> None,
                    total_amount |-> SeqSum([k \in 1 .. Len(po_in.items) |->
                        po_in.items[k].quantity * po_in.items[k].unit_cost]),
                    items |-> [k \in 1 .. Len(po_in.items) |->
                                  PurchaseOrderItem(po_in.items[k])]])
            /\ response' = Resp("create_purchase_order", 201, "ok",
                                po_in.order_number)
    /\ UNCHANGED <<items, movements, sales, customers, sessions>>

RECURSIVE ReceiveLines(_, _, _, _)
\* the receipt loop from order line k on: [items, moves, lines]
ReceiveLines(w, po_id, lines, k) ==
    IF k > Len(lines) THEN w
    ELSE LET row == w.items[lines[k].item_id]
             stock_before == row.current_stock
             stock_after == row.current_stock + lines[k].quantity
         IN ReceiveLines(
              [items |-> [w.items EXCEPT ![lines[k].item_id].current_stock = stock_after],
               moves |-> Append(w.moves,
                    StockMovement(lines[k].item_id, "purchase", lines[k].quantity,
                                  stock_before, stock_after, "purchase_order", po_id)),
               lines |-> [w.lines EXCEPT ![k].received_quantity = lines[k].quantity]],
              po_id, lines, k + 1)

\* the order row and the session's stock changes once the request's fields
\* are applied to the loaded order po: [po, items, moves]
UpdateOutcome(po, po_id, po_in, t) ==
    LET receives == po_in.status = "received" /\ po.status # "received"
        w == IF receives
             THEN ReceiveLines([items |-> t, moves |-> <<>>, lines |-> po.items],
                               po_id, po.items, 1)
             ELSE [items |-> t, moves |-> <<>>, lines |-> po.items]
    IN [po |-> [po EXCEPT
                  !.status = IF po_in.status # None THEN po_in.status ELSE @,
                  !.received_date = IF receives THEN "now" ELSE @,
                  !.items = w.lines,
                  !.notes = IF po_in.notes # None THEN po_in.notes ELSE @,
                  !.expected_date = IF po_in.expected_date # None
                                    THEN po_in.expected_date ELSE @,
                  !.supplier_id = IF po_in.supplier_id # None
                                  THEN po_in.supplier_id ELSE @],
        items |-> w.items, moves |-> w.moves]

\* (mutant) the terminal checks left out
UpdateNeverRejected(po) == FALSE
DeleteNeverRejected(po) == FALSE

\* the terminal check of update_purchase_order
UpdateRejected(po) == po.status = "received"

update_purchase_order(po_id, po_in) ==
    /\ IF po_id \notin DOMAIN orders
       THEN /\ response' = Resp("update_purchase_order", 404, "NotFound", po_id)
            /\ UNCHANGED <<items, movements, orders>>
       ELSE IF UpdateRejected(orders[po_id])
       THEN /\ response' = Resp("update_purchase_order", 400, "OrderAlreadyReceived",
                                po_id)
            /\ UNCHANGED <<items, movements, orders>>
       ELSE LET out == UpdateOutcome(orders[po_id], po_id, po_in, items)
            IN /\ orders' = [orders EXCEPT ![po_id] = out.po]
               /\ items' = out.items
               /\ movements' = movements \o out.moves
               /\ response' = Resp("update_purchase_order", 200, "ok", po_id)
    /\ UNCHANGED <<sales, customers, sessions>>

\* the status check of delete_purchase_order
DeleteRejected(po) == po.status = "received"

delete_purchase_order(po_id) ==
    /\ IF po_id \notin DOMAIN orders
       THEN /\ response' = Resp("delete_purchase_order", 404, "NotFound", po_id)
            /\ UNCHANGED orders
       ELSE IF DeleteRejected(orders[po_id])
       THEN /\ response' = Resp("delete_purchase_order", 400, "OrderAlreadyReceived",
                                po_id)
            /\ UNCHANGED orders
       ELSE /\ orders' = [n \in DOMAIN orders \ {po_id} |-> orders[n]]
            /\ response' = Resp("delete_purchase_order", 204, "ok", po_id)
    /\ UNCHANGED <<items, movements, sales, customers, sessions>>

\* GET /purchase-orders/suggest/{supplier_id}.  The query keeps the active
\* items of the supplier with current_stock <= reorder_point; the comparison
\* with a NULL reorder_point is not true
BelowReorderPoint(item, supplier_id) ==
    /\ item.supplier_id = supplier_id
    /\ item.is_active
    /\ item.reorder_point # <<>>
    /\ item.current_stock <= item.reorder_point[1]

\* float(item.reorder_point or 10): a reorder point of zero is falsy
ReorderPointOr10(item) ==
    IF item.reorder_point # <<>> /\ item.reorder_point[1] # 0
    THEN item.reorder_point[1] ELSE 10

qty_to_order(item) ==
    IF item.max_stock_level # <<>> THEN item.max_stock_level[1] - item.current_stock
    ELSE IF item.reorder_quantity # <<>> THEN item.reorder_quantity[1]
    ELSE ReorderPointOr10(item) * 2

\* the answer: the quantity suggested for each suggested item
suggest_po_items(supplier_id) ==
    /\ response' = Resp("suggest_po_items", 200, "ok",
           [supplier_id |-> supplier_id,
            suggestions |->
                [i \in {j \in ItemIds : /\ BelowReorderPoint(items[j], supplier_id)
                                        /\ qty_to_order(items[j]) > 0} |->
                    qty_to_order(items[i])]])
    /\ UNCHANGED <<items, movements, sales, orders, customers, sessions>>

POLine(item_id, quantity) ==
    [item_id |-> item_id, quantity |-> quantity, unit_cost |-> 500]

PORequest(order_number, lines) ==
    [supplier_id |-> "S1", order_number |-> order_number,
     expected_date |-> None, notes |-> None, items |-> lines]

\* PurchaseOrderUpdate: every field is optional
POUpdate(status, notes, expected_date, supplier_id) ==
    [status |-> status, notes |-> notes, expected_date |-> expected_date,
     supplier_id |-> supplier_id]

(***************************************************************************)
(* Specification                                                           *)
(***************************************************************************)
Init ==
    /\ items = EmptyTable
    /\ movements = <<>>
    /\ sales = <<>>
    /\ orders = EmptyTable
    /\ customers = <<>>
    /\ response = Resp("none", 0, "none", 0)
    /\ sessions = <<>>

\* a step of A that keeps the movement table within n rows
Bounded(A, n) == A /\ Len(movements') <= n

(***************************************************************************)
(* Spec: every write path of one item's stock, one request at a time.      *)
(***************************************************************************)
LedgerSkus == {"SKU-1"}

Next ==
    \/ \E sku \in LedgerSkus, st \in CreateStocks, neg \in BOOLEAN :
          create_inventory_item(sku, st, neg)
    \/ \E i \in LedgerSkus, q \in AdjustQuantities :
          Bounded(adjust_stock(i, q, "adjustment"), MaxMovements)
    \/ \E s \in LedgerSkus, c \in ImportStocks :
          import_inventory_csv(
              CsvFile(TRUE, TextColumns \cup NumberColumns,
                      <<CsvRow(s, "Item", <<"7", "5", "0">>, c, "Main Store")>>), 1)
    \/ \E c \in Carts(LedgerSkus, SaleQuantities, 2) :
          Bounded(create_sale(SaleRequest(c)), MaxMovements)
    \/ \E id \in 1 .. Len(sales) + 1 : Bounded(void_sale(id), MaxMovements)
    \/ \E i \in LedgerSkus :
          create_purchase_order(PORequest("PO-1", <<POLine(i, 2)>>))
    \/ Bounded(update_purchase_order("PO-1", POUpdate("received", None, None, None)), MaxMovements)

Spec == Init /\ [][Next]_vars

(***************************************************************************)
(* SpecSale: carts of up to three lines over two items, and their voids.   *)
(***************************************************************************)
MaxSaleMovements == 3                \* movement rows in a run of SpecSale

\* the carts of one or two lines, and the three-line carts of single units
SaleCarts ==
    Carts(Skus, SaleQuantities, 2) \cup [1 .. 3 -> {Line(i, 1) : i \in Skus}]

NextSale ==
    \/ \E sku \in Skus, neg \in BOOLEAN : create_inventory_item(sku, 2, neg)
    \/ \E c \in SaleCarts :
          Bounded(create_sale(SaleRequest(c)), MaxSaleMovements)
    \/ \E id \in 1 .. Len(sales) + 1 : Bounded(void_sale(id), MaxSaleMovements)

SpecSale == Init /\ [][NextSale]_vars

(***************************************************************************)
(* SpecLoyalty: one-line sales of one item with a customer attached, and   *)
(* their voids.                                                            *)
(***************************************************************************)
MaxLoyaltyMovements == 3             \* movement rows in a run of SpecLoyalty
Phones == {"0801"}
PointsRedeemed == {0, 1}             \* SaleCreate.points_redeemed (>= 0)

NextLoyalty ==
    \/ \E sku \in LedgerSkus, neg \in BOOLEAN : create_inventory_item(sku, 2, neg)
    \/ \E p \in Phones : create_customer(p)
    \/ \E i \in LedgerSkus, q \in SaleQuantities, c \in 0 .. 1, r \in PointsRedeemed :
          Bounded(create_sale(CustomerSaleRequest(<<Line(i, q)>>, c, r)),
                  MaxLoyaltyMovements)
    \/ \E id \in 1 .. Len(sales) + 1 : Bounded(void_sale(id), MaxLoyaltyMovements)

SpecLoyalty == Init /\ [][NextLoyalty]_vars

(***************************************************************************)
(* SpecPO: one purchase order over two items, created, edited, moved       *)
(* through its statuses, received and deleted.                             *)
(***************************************************************************)
OrderNumbers == {"PO-1"}

\* the lines of an order: one line, two lines of two items, or two lines of
\* the same item
OrderLines ==
    {<<POLine(i, 2)>> : i \in Skus}
        \cup {<<POLine("SKU-1", 2), POLine("SKU-2", 1)>>,
              <<POLine("SKU-1", 2), POLine("SKU-1", 1)>>}

NextPO ==
    \/ \E sku \in Skus, st \in CreateStocks : create_inventory_item(sku, st, FALSE)
    \/ \E n \in OrderNumbers, ls \in OrderLines :
          create_purchase_order(PORequest(n, ls))
    \/ \E n \in OrderNumbers, st \in POStatus \cup {None}, notes \in {None, "late"},
          d \in {None, "tomorrow"}, sup \in {None, "S2"} :
          update_purchase_order(n, POUpdate(st, notes, d, sup))
    \/ \E n \in OrderNumbers : delete_purchase_order(n)

SpecPO == Init /\ [][NextPO]_vars

(***************************************************************************)
(* SpecConcurrent: requests of several sessions on one event loop.  A      *)
(* handler runs alone between two awaits; at db.execute(select(...)) and   *)
(* at db.commit() the other requests run.  A session (autoflush off) reads *)
(* the committed row at its select, keeps the object in its identity map   *)
(* and changes it in memory; db.commit() flushes UPDATE ... SET            *)
(* current_stock = <the value in memory> for its rows and inserts its      *)
(* movements.  No handler locks a row (no with_for_update) and the models  *)
(* have no version column.                                                 *)
(***************************************************************************)
(* The catalog under import: items made through the API (one SKU with a    *)
(* leading blank), soft deletes, and uploads of one to three rows.         *)
(***************************************************************************)
ImportSkus == {"SKU-1", " SKU-1"}

\* the Selling Price texts: 1,500.50 and 1500.50 and 1500,50
PriceTexts == {<<"1", ",", "5", "0", "0", ".", "5", "0">>, <<"1", "5", "0", "0", ".", "5", "0">>, <<"1", "5", "0", "0", ",", "5", "0">>}

ValidRows == {CsvRow("SKU-1", "Item", p, <<"2">>, "Main Store") : p \in PriceTexts}

\* rows failing one requirement each, a row failing several
DefectRows ==
    {CsvRow("", "Item", <<"7", "5", "0">>, <<"2">>, "Main Store"),
     CsvRow("SKU-1", " ", <<"7", "5", "0">>, <<"2">>, "Main Store"),
     CsvRow("SKU-1", "Item", <<" ">>, <<"2">>, "Main Store"),
     CsvRow("SKU-1", "Item", <<"a", "b", "c">>, <<"2">>, "Main Store"),
     CsvRow("SKU-1", "Item", <<"-", "5">>, <<"2">>, "Main Store"),
     CsvRow("SKU-1", "Item", <<"0">>, <<>>, "Main Store"),
     CsvRow("", "", <<"a", "b", "c">>, <<>>, "Nowhere")}

\* rows whose location is not a location's name
LocationRows ==
    {CsvRow("SKU-1", "Item", <<"7", "5", "0">>, <<"2">>, "Nowhere"),
     CsvRow("SKU-2", "Item", <<"7", "5", "0">>, <<"2">>, "")}

BlankCsvRow == CsvRow("", " ", <<>>, <<" ">>, "")

\* the rows of the files of two rows
PairRows ==
    {CsvRow("SKU-1", "Item", <<"1", "5", "0", "0", ".", "5", "0">>, <<"2">>, "Main Store"),
     CsvRow("SKU-2", "Item", <<"1", "5", "0", "0", ".", "5", "0">>, <<"2">>, "Main Store"),
     CsvRow("SKU-1", "Item", <<"a", "b", "c">>, <<"2">>, "Main Store"),
     BlankCsvRow}

AllColumns == TextColumns \cup NumberColumns

\* the uploads of a run: the file and the location of the uploading user
\* (0: none)
Uploads ==
    {[file |-> CsvFile(TRUE, AllColumns, <<r>>), default_location |-> 1] : r \in ValidRows \cup DefectRows}
    \cup {[file |-> CsvFile(TRUE, AllColumns, <<r>>), default_location |-> d] : r \in LocationRows, d \in 0 .. 1}
    \cup {[file |-> CsvFile(FALSE, AllColumns, <<r>>), default_location |-> 1] : r \in ValidRows}
    \cup {[file |-> CsvFile(TRUE, AllColumns, <<r1, r2>>), default_location |-> 1] : r1 \in PairRows, r2 \in PairRows}
    \cup {[file |-> CsvFile(TRUE, AllColumns, <<r1, r2, r2>>), default_location |-> 1] :
              r1 \in {CsvRow("SKU-1", "Item", <<"1", "5", "0", "0", ".", "5", "0">>, <<"2">>, "Main Store")},
              r2 \in {CsvRow("SKU-2", "Item", <<"1", "5", "0", "0", ".", "5", "0">>, <<"2">>, "Main Store")}}
    \cup {[file |-> CsvFile(TRUE, required_cols, <<r>>), default_location |-> 1] :
              r \in {CsvRow("SKU-1", "Item", <<"1", "5", "0", "0", ".", "5", "0">>, <<>>, "")}}
    \cup {[file |-> CsvFile(TRUE, fieldnames, <<r>>), default_location |-> 1] :
              fieldnames \in {{"sku", "name", "stock"}, {"sku", "selling price"}, {"name", "selling price"}},
              r \in {BlankCsvRow}}

NextImport ==
    \/ \E sku \in ImportSkus : create_inventory_item(sku, 2000, FALSE)
    \/ delete_inventory_item("SKU-1")
    \/ \E u \in Uploads : import_inventory_csv(u.file, u.default_location)

SpecImport == Init /\ [][NextImport]_vars

(***************************************************************************)
(* The round trip: items made through the API, soft deletes, exports, and  *)
(* the upload of the file an export has just produced.                     *)
(***************************************************************************)
RoundTripSkus == {"SKU-1", " SKU-1", "SKU-2"}

NextRoundTrip ==
    \/ \E sku \in RoundTripSkus, st \in {0, 2000} : create_inventory_item(sku, st, FALSE)
    \/ \E sku \in RoundTripSkus : delete_inventory_item(sku)
    \/ \E user_location \in 0 .. 1 : export_inventory_csv(user_location)
    \/ \E default_location \in 0 .. 1 :
          /\ response.op = "export_inventory_csv"
          /\ import_inventory_csv(response.ref, default_location)

SpecRoundTrip == Init /\ [][NextRoundTrip]_vars

(***************************************************************************)
(* The customer's points: one customer, manual adjustments of 999 points   *)
(* either way, sales of one line paid by card or in cash that earn and      *)
(* redeem points, and voids.                                               *)
(***************************************************************************)
MaxPointsMovements == 2
MaxLifetimePoints == 1002

AdjustPoints == {-999, 999}

\* the payments of a run: by card, or in cash with 0 or 50 tendered
Payments ==
    {[payment_method |-> "card", amount_tendered |-> <<>>]}
        \cup {[payment_method |-> "cash", amount_tendered |-> <<t>>] : t \in {0, 50}}

PointsRequest(item_id, quantity, customer_id, points_redeemed, payment) ==
    [CustomerSaleRequest(<<Line(item_id, quantity)>>, customer_id, points_redeemed)
        EXCEPT !.payment_method = payment.payment_method,
               !.amount_tendered = payment.amount_tendered]

PointsRequests ==
    {PointsRequest(i, q, c, r, p) :
        i \in LedgerSkus, q \in SaleQuantities, c \in 0 .. 1, r \in PointsRedeemed, p \in Payments}

NextPoints ==
    \/ \E sku \in LedgerSkus : create_inventory_item(sku, 2, FALSE)
    \/ \E p \in Phones : create_customer(p)
    \/ \E c \in 1 .. 2, points \in AdjustPoints :
          /\ c \in DOMAIN customers =>
                 customers[c].lifetime_points + points <= MaxLifetimePoints
          /\ adjust_loyalty_points(c, points)
    \/ \E request \in PointsRequests :
          Bounded(create_sale(request), MaxPointsMovements)
    \/ \E id \in 1 .. Len(sales) + 1 : Bounded(void_sale(id), MaxPointsMovements)

SpecPoints == Init /\ [][NextPoints]_vars

(***************************************************************************)
(* The movement table under every operation that touches an item: item     *)
(* creation and soft delete, CSV import, adjustments, sales, voids, and    *)
(* orders of one or two lines, edited and received.                        *)
(***************************************************************************)
MaxLedgerMovements == 2

NextLedger ==
    \/ \E sku \in LedgerSkus : create_inventory_item(sku, 2, FALSE)
    \/ \E i \in LedgerSkus : delete_inventory_item(i)
    \/ \E s \in LedgerSkus :
          import_inventory_csv(
              CsvFile(TRUE, TextColumns \cup NumberColumns,
                      <<CsvRow(s, "Item", <<"7", "5", "0">>, <<"0", ".", "0", "0", "2">>, "Main Store")>>), 1)
    \/ \E i \in LedgerSkus, q \in AdjustQuantities :
          Bounded(adjust_stock(i, q, "adjustment"), MaxLedgerMovements)
    \/ \E c \in Carts(LedgerSkus, {1}, 2) :
          Bounded(create_sale(SaleRequest(c)), MaxLedgerMovements)
    \/ \E id \in 1 .. Len(sales) + 1 : Bounded(void_sale(id), MaxLedgerMovements)
    \/ \E ls \in {<<POLine("SKU-1", 2)>>, <<POLine("SKU-1", 2), POLine("SKU-1", 1)>>} :
          create_purchase_order(PORequest("PO-1", ls))
    \/ \E st \in {"ordered", "received"} :
          Bounded(update_purchase_order("PO-1", POUpdate(st, None, None, None)),
                  MaxLedgerMovements)

SpecLedger == Init /\ [][NextLedger]_vars

(***************************************************************************)
(* Reorder suggestions: a catalog of one item of supplier S1 or S2 with    *)
(* every combination of stock, stock levels and activity, and a second     *)
(* item of S1 well above its reorder point; adjustments and soft deletes   *)
(* move the items, and suggestions are asked for either supplier.          *)
(***************************************************************************)
MaxReorderMovements == 1

ReorderItems ==
    {[InventoryItem("SKU-1", st, TRUE) EXCEPT
          !.supplier_id = sup, !.reorder_point = rp, !.max_stock_level = mx,
          !.reorder_quantity = rq] :
        st \in {0, 5}, sup \in {"S1", "S2"}, rp \in {<<>>, <<0>>, <<10>>},
        mx \in {<<>>, <<3>>, <<20>>}, rq \in {<<>>, <<7>>}}

InitReorder ==
    /\ items \in {Put(Put(EmptyTable, "SKU-1", r), "SKU-2",
                      [InventoryItem("SKU-2", 30, TRUE) EXCEPT
                           !.supplier_id = "S1", !.reorder_point = <<10>>]) :
                     r \in ReorderItems}
    /\ movements = <<>>
    /\ sales = <<>>
    /\ orders = EmptyTable
    /\ customers = <<>>
    /\ response = Resp("none", 0, "none", 0)
    /\ sessions = <<>>

NextReorder ==
    \/ \E supplier_id \in {"S1", "S2"} : suggest_po_items(supplier_id)
    \/ \E i \in Skus, q \in {-5, -25} :
          Bounded(adjust_stock(i, q, "adjustment"), MaxReorderMovements)
    \/ \E i \in Skus : delete_inventory_item(i)

SpecReorder == InitReorder /\ [][NextReorder]_vars

(***************************************************************************)
(* Sales with discounts: carts of one or two lines of one item, each line  *)
(* with or without a percentage and an amount off, under a header          *)
(* discount of 0 or 20, and their voids.                                   *)
(***************************************************************************)
MaxDiscountMovements == 2

DiscountLine(item_id, quantity, discount_percent, discount_amount) ==
    [Line(item_id, quantity) EXCEPT !.discount_percent = discount_percent,
                                    !.discount_amount = discount_amount]

DiscountLines ==
    {DiscountLine(i, 1, pct, amt) : i \in LedgerSkus, pct \in {0, 10}, amt \in {0, 5}}

DiscountRequests ==
    {[SaleRequest(lines) EXCEPT !.discount_amount = d] :
        lines \in UNION {[1 .. m -> DiscountLines] : m \in 1 .. 2}, d \in {0, 20}}

NextDiscount ==
    \/ \E sku \in LedgerSkus : create_inventory_item(sku, 2, FALSE)
    \/ \E request \in DiscountRequests :
          Bounded(create_sale(request), MaxDiscountMovements)
    \/ \E id \in 1 .. Len(sales) + 1 : Bounded(void_sale(id), MaxDiscountMovements)

SpecDiscount == Init /\ [][NextDiscount]_vars

(***************************************************************************)
MaxSessions == 2                     \* requests in a run of SpecConcurrent

\* a request in flight: its position, its identity map (w.items) and the
\* objects it has added
Session(op, pc, request, w) ==
    [op |-> op, pc |-> pc, status |-> 0, request |-> request, k |-> 1, w |-> w]

\* the session after its request has ended with the given status
Done(s, status) == [s EXCEPT !.pc = "done", !.status = status]

\* the UPDATEs of a flush: the rows of the identity map overwrite the
\* committed current_stock (every loaded row is dirty: quantities are not 0)
Flush(t, rows) ==
    [i \in DOMAIN t |->
        IF i \in DOMAIN rows
        THEN [t[i] EXCEPT !.current_stock = rows[i].current_stock]
        ELSE t[i]]

\* adjust_stock up to the end of its select
adjust_stock_select(item_id, quantity, movement_type) ==
    LET request == [item_id |-> item_id, quantity |-> quantity,
                    movement_type |-> movement_type]
        s == Session("adjust_stock", "selected", request, NewCart(EmptyTable))
    IN /\ Len(sessions) < MaxSessions
       /\ IF item_id \notin ItemIds
          THEN /\ sessions' = Append(sessions, Done(s, 404))
               /\ response' = Resp("adjust_stock", 404, "NotFound", item_id)
          ELSE /\ sessions' = Append(sessions,
                      [s EXCEPT !.w.items = Put(EmptyTable, item_id, items[item_id])])
               /\ UNCHANGED response
       /\ UNCHANGED <<items, movements, sales, orders, customers>>

\* adjust_stock from the return of its select to the end of db.commit()
adjust_stock_commit(n) ==
    LET s == sessions[n]
        r == s.request
        out == AdjustOutcome(s.w.items[r.item_id], r.item_id, r.quantity,
                             r.movement_type)
    IN /\ s.op = "adjust_stock" /\ s.pc = "selected"
       /\ IF ~out.ok
          THEN /\ sessions' = [sessions EXCEPT ![n] = Done(s, 400)]
               /\ response' = Resp("adjust_stock", 400, "InsufficientStock",
                                   r.item_id)
               /\ UNCHANGED <<items, movements>>
          ELSE /\ items' = Flush(items, Put(s.w.items, r.item_id, out.row))
               /\ movements' = Append(movements, out.movement)
               /\ sessions' = [sessions EXCEPT ![n] =
                      Done([s EXCEPT !.w.items = Put(@, r.item_id, out.row),
                                     !.w.moves = <<out.movement>>], 200)]
               /\ response' = Resp("adjust_stock", 200, "ok", r.item_id)
       /\ UNCHANGED <<sales, orders, customers>>

\* the UPDATE of the flush writes the columns the session changed on the
\* loaded order, and leaves the others as the row has them
FlushOrder(row, loaded, changed) ==
    [f \in DOMAIN row |-> IF changed[f] # loaded[f] THEN changed[f] ELSE row[f]]

\* update_purchase_order up to the end of its select: the order, its lines
\* and their inventory items are loaded (selectinload) into the session
update_purchase_order_select(po_id, po_in) ==
    LET request == [po_id |-> po_id, po_in |-> po_in]
        s == Session("update_purchase_order", "selected", request, NewCart(EmptyTable))
    IN /\ Len(sessions) < MaxSessions
       /\ IF po_id \notin DOMAIN orders
          THEN /\ sessions' = Append(sessions, Done(s, 404))
               /\ response' = Resp("update_purchase_order", 404, "NotFound", po_id)
          ELSE /\ sessions' = Append(sessions,
                      [s EXCEPT !.w = [items |->
                                           [i \in {orders[po_id].items[k].item_id :
                                                      k \in DOMAIN orders[po_id].items} |->
                                               items[i]],
                                       po |-> orders[po_id]]])
               /\ UNCHANGED response
       /\ UNCHANGED <<items, movements, sales, orders, customers>>

\* update_purchase_order from the return of its select to the end of
\* db.commit(): the checks and the receipt run on the loaded objects, and the
\* flush writes the order's and the items' changed columns
update_purchase_order_commit(n) ==
    LET s == sessions[n]
        r == s.request
        out == UpdateOutcome(s.w.po, r.po_id, r.po_in, s.w.items)
    IN /\ s.op = "update_purchase_order" /\ s.pc = "selected"
       /\ IF UpdateRejected(s.w.po)
          THEN /\ sessions' = [sessions EXCEPT ![n] = Done(s, 400)]
               /\ response' = Resp("update_purchase_order", 400,
                                   "OrderAlreadyReceived", r.po_id)
               /\ UNCHANGED <<items, movements, orders>>
          ELSE /\ orders' = [orders EXCEPT ![r.po_id] = FlushOrder(@, s.w.po, out.po)]
               /\ items' = IF out.moves = <<>> THEN items ELSE Flush(items, out.items)
               /\ movements' = movements \o out.moves
               /\ sessions' = [sessions EXCEPT ![n] = Done(s, 200)]
               /\ response' = Resp("update_purchase_order", 200, "ok", r.po_id)
       /\ UNCHANGED <<sales, customers>>

\* create_sale up to its first select
create_sale_begin(request) ==
    /\ Len(sessions) < MaxSessions
    /\ sessions' = Append(sessions,
           Session("create_sale", "loop", request, NewCart(EmptyTable)))
    /\ UNCHANGED <<items, movements, sales, orders, customers, response>>

\* create_sale from the select of line k to the next await: the select
\* returns the object of the identity map when the session holds the row,
\* and the committed row otherwise
create_sale_line(n) ==
    LET s == sessions[n]
        lines == s.request.items
        id == lines[s.k].item_id
        loaded == IF id \in DOMAIN s.w.items THEN s.w.items
                  ELSE Put(s.w.items, id, items[id])
        w == IF id \notin ItemIds THEN LineNotFound(s.w, s.k)
             ELSE CartLine([s.w EXCEPT !.items = loaded], lines, s.k)
    IN /\ s.op = "create_sale" /\ s.pc = "loop"
       /\ IF ~w.ok
          THEN /\ sessions' = [sessions EXCEPT ![n] = Done([s EXCEPT !.w = w], 400)]
               /\ response' = Resp("create_sale", 400, w.detail, w.failed_line)
          ELSE /\ sessions' = [sessions EXCEPT ![n] =
                      [s EXCEPT !.w = w, !.k = @ + 1,
                                !.pc = IF s.k = Len(lines) THEN "commit" ELSE "loop"]]
               /\ UNCHANGED response
       /\ UNCHANGED <<items, movements, sales, orders, customers>>

\* create_sale from the end of the loop to the end of db.commit()
create_sale_commit(n) ==
    LET s == sessions[n]
        out == SaleResult(s.w, s.request, customers)
    IN /\ s.op = "create_sale" /\ s.pc = "commit"
       /\ IF ~out.ok
          THEN /\ sessions' = [sessions EXCEPT ![n] = Done(s, 400)]
               /\ response' = Resp("create_sale", 400, out.detail, out.failed_line)
               /\ items' = RolledBack(items, Flush(items, out.items))
               /\ movements' = RolledBack(movements, movements \o out.moves)
               /\ customers' = RolledBack(customers, out.customers)
               /\ UNCHANGED sales
          ELSE /\ items' = Flush(items, out.items)
               /\ movements' = movements \o out.moves
               /\ customers' = out.customers
               /\ sales' = Append(sales, out.sale)
               /\ sessions' = [sessions EXCEPT ![n] = Done(s, 201)]
               /\ response' = Resp("create_sale", 201, "ok", Len(sales) + 1)
       /\ UNCHANGED orders

\* the requests of a run: adjustments and carts of one or two lines of one
\* item that starts with 2 units, some paid in cash
CashSaleRequest(lines, amount_tendered) ==
    [SaleRequest(lines) EXCEPT !.payment_method = "cash",
                               !.amount_tendered = <<amount_tendered>>]

ConcurrentRequests ==
    {SaleRequest(c) : c \in Carts(LedgerSkus, SaleQuantities, 2)}
        \cup {CashSaleRequest(<<Line(i, 1)>>, t) : i \in LedgerSkus, t \in {50, 100}}

NextConcurrent ==
    \/ \E sku \in LedgerSkus, neg \in BOOLEAN : create_inventory_item(sku, 2, neg)
    \/ \E i \in LedgerSkus, q \in AdjustQuantities :
          adjust_stock_select(i, q, "adjustment")
    \/ \E n \in DOMAIN sessions : adjust_stock_commit(n)
    \/ \E r \in ConcurrentRequests : create_sale_begin(r)
    \/ \E n \in DOMAIN sessions : create_sale_line(n)
    \/ \E n \in DOMAIN sessions : create_sale_commit(n)

SpecConcurrent == Init /\ [][NextConcurrent]_vars

\* SpecReceipt: requests that update one purchase order, each split at the
\* awaits of its select and of its commit
ReceiptStock == 2
ReceiptOrders == {PORequest("PO-1", ls) : ls \in {<<POLine("SKU-1", 3)>>, <<POLine("SKU-1", 3), POLine("SKU-2", 1)>>}}

NextReceipt ==
    \/ \E sku \in LedgerSkus : create_inventory_item(sku, ReceiptStock, FALSE)
    \/ \E r \in ReceiptOrders : create_purchase_order(r)
    \/ \E st \in {"ordered", "received"}, notes \in {None, "late"} :
          update_purchase_order_select("PO-1", POUpdate(st, notes, None, None))
    \/ \E n \in DOMAIN sessions : update_purchase_order_commit(n)

SpecReceipt == Init /\ [][NextReceipt]_vars

(***************************************************************************)
(* The movement ledger of one item                                         *)
(***************************************************************************)
MovementsOf(i) == SelectSeq(movements, LAMBDA m : m.item_id = i)

\* the stock the movements of item i add up to, from zero
Replay(i) ==
    LET ms == MovementsOf(i)
    IN SeqSum([k \in 1 .. Len(ms) |-> ms[k].quantity])

\* a step that writes the movement table
LedgerStep == movements' # movements

(***************************************************************************)
(* C1. Ledger conservation: for every item, the quantities of all its      *)
(* stock movements, summed from zero, give its current_stock.              *)
(***************************************************************************)
C1_LedgerConservation ==
    \A i \in ItemIds : Replay(i) = items[i].current_stock

(***************************************************************************)
(* C2. Movement chain continuity: for every item and every two consecutive *)
(* movements m1, m2 of it in creation order, m2.stock_before equals        *)
(* m1.stock_after.                                                         *)
(***************************************************************************)
C2_ChainContinuity ==
    \A i \in ItemIds :
        LET ms == MovementsOf(i)
        IN \A k \in 1 .. Len(ms) - 1 : ms[k + 1].stock_before = ms[k].stock_after

SaleFailed(r) ==
    /\ r.op = "create_sale" /\ r.status = 400
    /\ r.detail \in {"ItemNotFound", "InsufficientStock"}

C4_SaleAtomicity ==
    [][SaleFailed(response') =>
         items' = items /\ movements' = movements /\ sales' = sales]_vars

\* a cart rejected at its third line, after two lines that passed the check
C4_Witness ==
    SaleFailed(response) /\ response.detail = "InsufficientStock" /\ response.ref = 3

(***************************************************************************)
(* C5. Void reversal: a successful createSale deducts each line's quantity *)
(* from its item's current_stock; a successful voidSale appends exactly    *)
(* one return_in movement of +quantity per sale line and adds the          *)
(* quantities back, so that a void directly after its sale restores every  *)
(* item's pre-sale stock, and a one-line sale of q plus its void leave the *)
(* two movements sale -q, return_in +q.                                    *)
(***************************************************************************)
\* the quantity the lines of a sale carry for item i
SoldOf(lines, i) ==
    SeqSum([k \in 1 .. Len(lines) |->
               IF lines[k].item_id = i THEN lines[k].quantity ELSE 0])

SaleCreated(r) == r.op = "create_sale" /\ r.status = 201
SaleVoided(r) == r.op = "void_sale" /\ r.status = 200

\* the stock_before of the first of the last n movements that is of item i
PreSaleStock(i, n) ==
    LET first == CHOOSE k \in Len(movements) - n + 1 .. Len(movements) :
                     /\ movements[k].item_id = i
                     /\ \A j \in Len(movements) - n + 1 .. k - 1 :
                            movements[j].item_id # i
    IN movements[first].stock_before

C5_SaleDeducts ==
    SaleCreated(response') /\ sales' # sales =>
        LET lines == sales'[response'.ref].items
        IN \A i \in ItemIds :
               items'[i].current_stock = items[i].current_stock - SoldOf(lines, i)

C5_VoidRestores ==
    SaleVoided(response') /\ sales' # sales =>
        LET lines == sales[response'.ref].items
            n == Len(lines)
        IN /\ \A i \in ItemIds :
                 items'[i].current_stock = items[i].current_stock + SoldOf(lines, i)
           /\ Len(movements') = Len(movements) + n
           /\ SubSeq(movements', 1, Len(movements)) = movements
           /\ \A k \in 1 .. n :
                 LET m == movements'[Len(movements) + k]
                 IN /\ m.movement_type = "return_in"
                    /\ m.item_id = lines[k].item_id
                    /\ m.quantity = lines[k].quantity
           \* the void follows its sale directly
           /\ SaleCreated(response) /\ response.ref = response'.ref =>
                 /\ \A k \in 1 .. n :
                       items'[lines[k].item_id].current_stock
                           = PreSaleStock(lines[k].item_id, n)
                 /\ n = 1 =>
                       LET sold == movements'[Len(movements')  - 1]
                           back == movements'[Len(movements')]
                       IN /\ sold.movement_type = "sale"
                          /\ sold.quantity = -lines[1].quantity
                          /\ back.movement_type = "return_in"
                          /\ back.quantity = lines[1].quantity
                          /\ sold.item_id = back.item_id

VoidOfVoided ==
    /\ response'.op = "void_sale"
    /\ response'.ref \in DOMAIN sales
    /\ sales[response'.ref].status = "void"

C6_DoubleVoidRejected ==
    [][VoidOfVoided =>
          /\ response'.status = 400 /\ response'.detail = "AlreadyVoided"
          /\ items' = items
          /\ movements' = movements
          /\ customers' = customers
          /\ sales' = sales
          /\ sales'[response'.ref].status = "void"]_vars

\* the second void of a sale that had earned its customer points
C6_Witness ==
    /\ response.op = "void_sale" /\ response.detail = "AlreadyVoided"
    /\ sales[response.ref].status = "void"
    /\ sales[response.ref].customer_id = 1
    /\ sales[response.ref].points_earned > 0
    /\ customers[1].loyalty_points = 0

(***************************************************************************)
(* C7. Purchase-order receipt is exactly-once: the update that moves an    *)
(* order into received credits every line's quantity to its item once (one *)
(* purchase movement per line, received_quantity set to quantity), and     *)
(* every later update of that order is rejected, changes no stock and adds *)
(* no movement.                                                            *)
(***************************************************************************)
\* the purchase movements that refer to the order p
ReceiptsOf(p) ==
    SelectSeq(movements, LAMBDA m : /\ m.movement_type = "purchase"
                                    /\ m.reference_type = "purchase_order"
                                    /\ m.reference_id = p)

\* the purchase movements of an order are one per line once it is received,
\* and none before
CreditedOnce ==
    \A p \in DOMAIN orders :
        LET lines == orders[p].items
            ms == ReceiptsOf(p)
        IN IF orders[p].status = "received"
           THEN /\ Len(ms) = Len(lines)
                /\ \A k \in 1 .. Len(lines) :
                      /\ ms[k].item_id = lines[k].item_id
                      /\ ms[k].quantity = lines[k].quantity
                      /\ lines[k].received_quantity = lines[k].quantity
           ELSE Len(ms) = 0

\* the step that moves the order into received
Receipt ==
    /\ response'.op = "update_purchase_order"
    /\ response'.ref \in DOMAIN orders
    /\ orders[response'.ref].status # "received"
    /\ response'.ref \in DOMAIN orders'
    /\ orders'[response'.ref].status = "received"

\* an update request on an order that is received
LaterUpdate ==
    /\ response'.op = "update_purchase_order"
    /\ response'.ref \in DOMAIN orders
    /\ orders[response'.ref].status = "received"

C7_ReceiptExactlyOnce ==
    [] [ /\ CreditedOnce'
         /\ Receipt =>
               LET lines == orders[response'.ref].items
               IN /\ \A i \in ItemIds :
                        items'[i].current_stock
                            = items[i].current_stock + SoldOf(lines, i)
                  /\ Len(movements') = Len(movements) + Len(lines)
                  /\ SubSeq(movements', 1, Len(movements)) = movements
         /\ LaterUpdate =>
               /\ response'.status = 400
               /\ items' = items
               /\ movements' = movements ]_vars

\* a received order of two lines of one item, credited 2 + 1, and a later
\* update of it that was rejected
C7_Witness ==
    /\ response.op = "update_purchase_order" /\ response.status = 400
    /\ orders[response.ref].status = "received"
    /\ Len(movements) = 2
    /\ movements[1].item_id = movements[2].item_id
    /\ items[movements[1].item_id].current_stock
           = movements[1].stock_before + 3

(***************************************************************************)
(* C8. Received is terminal: once an order's status is received, no        *)
(* operation (status update, edit of notes, expected date or supplier,     *)
(* delete) changes its status, its header fields, or any line's quantity   *)
(* or received_quantity.                                                   *)
(***************************************************************************)
C8_ReceivedIsTerminal ==
    [][\A p \in DOMAIN orders :
          orders[p].status = "received" =>
              p \in DOMAIN orders' /\ orders'[p] = orders[p]]_vars

\* a delete of a received order that was rejected
C8_Witness ==
    /\ response.op = "delete_purchase_order" /\ response.status = 400
    /\ response.ref \in DOMAIN orders
    /\ orders[response.ref].status = "received"
    /\ \A k \in 1 .. Len(orders[response.ref].items) :
          orders[response.ref].items[k].received_quantity
              = orders[response.ref].items[k].quantity

(***************************************************************************)
(* C9. Same-item serialization: when two stock-mutating requests on one    *)
(* item (two adjustments, or an adjustment and a sale) run concurrently,   *)
(* their reads and commits interleaved in any order, and both succeed, the *)
(* item's final current_stock is the initial stock plus both signed        *)
(* quantities, and the two movements chain.                                *)
(***************************************************************************)
Succeeded(s) == s.pc = "done" /\ s.status \in {200, 201}

C9_SameItemSerialization ==
    Len(sessions) = 2 /\ Succeeded(sessions[1]) /\ Succeeded(sessions[2])
    /\ "adjust_stock" \in {sessions[1].op, sessions[2].op} =>
        \A i \in ItemIds :
            LET ms == MovementsOf(i)
            IN Len(ms) > 0 =>
                  /\ items[i].current_stock
                         = ms[1].stock_before
                           + SeqSum([k \in 1 .. Len(ms) |-> ms[k].quantity])
                  /\ \A k \in 1 .. Len(ms) - 1 :
                        ms[k + 1].stock_before = ms[k].stock_after

(***************************************************************************)
(* C10. No overselling under concurrency: two createSale requests running  *)
(* concurrently on one item with allow_negative_stock false, each asking   *)
(* for a quantity the available stock covers alone but not together, never *)
(* both succeed, and under every interleaving of their stock checks and    *)
(* deductions the item's current_stock stays >= 0.                         *)
(***************************************************************************)
\* the quantity the sale movements of item i have taken from it
SoldFrom(i) ==
    LET ms == MovementsOf(i)
    IN SeqSum([k \in 1 .. Len(ms) |->
                  IF ms[k].movement_type = "sale" THEN -ms[k].quantity ELSE 0])

C10_NoOverselling ==
    \A i \in ItemIds :
        ~items[i].allow_negative_stock =>
            /\ items[i].current_stock >= 0
            /\ Len(sessions) = 2 /\ Succeeded(sessions[1]) /\ Succeeded(sessions[2])
               /\ sessions[1].op = "create_sale" /\ sessions[2].op = "create_sale"
                  => SoldFrom(i) <= MovementsOf(i)[1].stock_before

(***************************************************************************)
(* C11. Adjustment policy: an adjustment with current_stock + quantity < 0 *)
(* on an item whose allow_negative_stock is false fails with               *)
(* InsufficientStock and leaves the item's stock and the movements as they *)
(* were; on an item whose flag is true the adjustment succeeds, sets       *)
(* current_stock to current_stock + quantity (negative or not) and appends *)
(* one movement.                                                           *)
(***************************************************************************)
AdjustmentPolicy(i, q) ==
    LET new_stock == items[i].current_stock + q
    IN /\ new_stock < 0 /\ ~items[i].allow_negative_stock =>
              /\ response'.status = 400
              /\ response'.detail = "InsufficientStock"
              /\ items' = items
              /\ movements' = movements
       /\ items[i].allow_negative_stock =>
              /\ response'.status = 200
              /\ items' = [items EXCEPT ![i].current_stock = new_stock]
              /\ Len(movements') = Len(movements) + 1
              /\ SubSeq(movements', 1, Len(movements)) = movements
              /\ movements'[Len(movements')].item_id = i
              /\ movements'[Len(movements')].quantity = q

C11_AdjustmentPolicy ==
    [][\A i \in ItemIds, q \in AdjustQuantities :
          adjust_stock(i, q, "adjustment") => AdjustmentPolicy(i, q)]_vars

\* an adjustment of an item without the flag was rejected at stock 0
C11_Witness ==
    /\ response.op = "adjust_stock" /\ response.detail = "InsufficientStock"
    /\ ~items[response.ref].allow_negative_stock
    /\ items[response.ref].current_stock = 0

(***************************************************************************)
(* C12. Round trip: importing the file an export has just produced, the    *)
(* catalog not modified in between, answers with updated_count equal to    *)
(* the number of items exported, imported_count 0 and no errors.           *)
(***************************************************************************)
C12_RoundTrip ==
    [][response.op = "export_inventory_csv" =>
          \A default_location \in 0 .. 1 :
              import_inventory_csv(response.ref, default_location) =>
                  /\ response'.status = 200
                  /\ response'.ref.updated_count = Len(response.ref.rows)
                  /\ response'.ref.imported_count = 0
                  /\ response'.ref.errors = <<>>]_vars

(***************************************************************************)
(* C13. Numeric cells: a Selling Price of "1,500.50", "1500.50" or          *)
(* "1500,50" is read as 1500.50 and its row is imported; a Selling Price   *)
(* of "abc" or "-5" gives a row error and the import is not aborted.       *)
(***************************************************************************)
OneRowFile(row) == CsvFile(TRUE, AllColumns, <<row>>)

PriceRow(selling_price) == CsvRow("SKU-1", "Item", selling_price, <<"2">>, "Main Store")

C13_NumericParser ==
    [][/\ \A p \in PriceTexts, default_location \in 0 .. 1 :
             import_inventory_csv(OneRowFile(PriceRow(p)), default_location) =>
                 /\ response'.status = 200
                 /\ response'.ref.errors = <<>>
                 /\ response'.ref.imported_count + response'.ref.updated_count = 1
                 /\ items'["SKU-1"].selling_price = 1500500
       /\ \A p \in {<<"a", "b", "c">>, <<"-", "5">>}, default_location \in 0 .. 1 :
             import_inventory_csv(OneRowFile(PriceRow(p)), default_location) =>
                 /\ response'.status = 200
                 /\ response'.ref.errors = <<[row |-> 2, reason |-> "Invalid Selling Price"]>>
                 /\ items' = items]_vars

(***************************************************************************)
(* C14. Row-level failure isolation: in an import that is answered, every  *)
(* row failing validation (empty SKU, empty Name, missing, unparseable or  *)
(* non-positive Selling Price, unresolvable location) has exactly one      *)
(* entry in errors and leaves the catalog alone, every valid row is        *)
(* created or updated, and success holds exactly when errors is empty.     *)
(***************************************************************************)
FailsValidation(u, k) ==
    LET row == u.file.rows[k]
        price == parse_float(StripChars(row["selling price"]), <<>>)
    IN \/ Strip(row["sku"]) = ""
       \/ Strip(row["name"]) = ""
       \/ StripChars(row["selling price"]) = <<>>
       \/ price = <<>>
       \/ price[1] <= 0
       \/ Lower(Strip(row["location"])) \notin LocationNames /\ u.default_location = 0

DataRows(u) == {k \in 1 .. Len(u.file.rows) : u.file.rows[k] # BlankCsvRow}
FailedRows(u) == {k \in DataRows(u) : FailsValidation(u, k)}
PassedRows(u) == DataRows(u) \ FailedRows(u)

RowIsolation(u) ==
    LET errors == response'.ref.errors
        PassedSkus == {Strip(u.file.rows[k]["sku"]) : k \in PassedRows(u)}
    IN /\ Len(errors) = Cardinality(FailedRows(u))
       /\ \A k \in FailedRows(u) : \E e \in 1 .. Len(errors) : errors[e].row = k + 1
       /\ response'.ref.imported_count + response'.ref.updated_count
              = Cardinality(PassedRows(u))
       /\ \A sku \in (DOMAIN items \cup DOMAIN items') \ PassedSkus :
              sku \in DOMAIN items /\ sku \in DOMAIN items' /\ items'[sku] = items[sku]
       /\ \A k \in PassedRows(u) :
              LET sku == Strip(u.file.rows[k]["sku"])
              IN /\ sku \in DOMAIN items'
                 /\ items'[sku].name = Strip(u.file.rows[k]["name"])
                 /\ items'[sku].selling_price \in {750000, 1500500}
                 /\ sku \in DOMAIN items =>
                        items'[sku].is_active = items[sku].is_active
       /\ response'.ref.success <=> errors = <<>>

\* the uploads with a row that fails validation
FailingUploads ==
    {u \in Uploads : required_cols \subseteq u.file.fieldnames /\ FailedRows(u) # {}}

C15_BatchAllOrNothing ==
    [][response'.op = "import_inventory_csv" /\ response'.status = 400 =>
          /\ items' = items
          /\ movements' = movements]_vars

\* the commit failed after the update of SKU-1 to 1500.50 and two inserts
C15_Witness ==
    /\ response.op = "import_inventory_csv" /\ response.detail = "CommitFailed"
    /\ "SKU-1" \in ItemIds /\ items["SKU-1"].selling_price = 750000
    /\ "SKU-2" \notin ItemIds

\* the sale leaves every table as it was
NothingPersisted ==
    /\ items' = items
    /\ movements' = movements
    /\ customers' = customers
    /\ sales' = sales

\* the cart loop of the request passes: every item is found and in stock
LinesPass(request) == SaleLines(NewCart(items), request.items, 1).ok

\* subtotal - discount + tax of a request whose lines pass
TotalAmount(request) ==
    LET w == SaleLines(NewCart(items), request.items, 1)
    IN w.subtotal - request.discount_amount + w.total_tax

(***************************************************************************)
(* C16. Cash underpayment is rejected: a cash sale whose amount_tendered   *)
(* is supplied and below the total, zero included, fails with              *)
(* PaymentInsufficient and leaves stock, movements, customers and sales    *)
(* as they were.                                                           *)
(***************************************************************************)
C16_CashUnderpayment ==
    [][\A request \in PointsRequests :
          /\ request.payment_method = "cash"
          /\ request.amount_tendered # <<>>
          /\ LinesPass(request)
          /\ request.amount_tendered[1] < TotalAmount(request)
          /\ create_sale(request)
          => /\ response'.status = 400
             /\ response'.detail = "PaymentInsufficient"
             /\ NothingPersisted]_vars

(***************************************************************************)
(* C17. Redemption is checked against the balance before the sale: a sale  *)
(* for a customer whose loyalty_points, when the call starts, are fewer    *)
(* than points_redeemed fails with InsufficientPoints and leaves stock,    *)
(* movements, customers and sales as they were.                            *)
(***************************************************************************)
C17_RedemptionAgainstStartingBalance ==
    [][\A request \in PointsRequests :
          /\ request.customer_id \in DOMAIN customers
          /\ customers[request.customer_id].loyalty_points < request.points_redeemed
          /\ LinesPass(request)
          /\ request.payment_method = "card"
          /\ create_sale(request)
          => /\ response'.status = 400
             /\ response'.detail = "InsufficientPoints"
             /\ NothingPersisted]_vars

(***************************************************************************)
(* C18. Point balances never go negative: in every reachable state each    *)
(* customer's loyalty_points and lifetime_points are at least zero.        *)
(***************************************************************************)
C18_PointsNonNegative ==
    \A c \in DOMAIN customers :
        customers[c].loyalty_points >= 0 /\ customers[c].lifetime_points >= 0

(***************************************************************************)
(* C19. Tier is a function of lifetime points: in every reachable state    *)
(* each customer's loyalty_tier is diamond from 50000 lifetime points,     *)
(* platinum from 15000, gold from 5000, silver from 1000, else bronze.     *)
(***************************************************************************)
TierOf(lifetime_points) ==
    CASE lifetime_points >= 50000 -> "diamond"
      [] lifetime_points < 50000 /\ lifetime_points >= 15000 -> "platinum"
      [] lifetime_points < 15000 /\ lifetime_points >= 5000 -> "gold"
      [] lifetime_points < 5000 /\ lifetime_points >= 1000 -> "silver"
      [] lifetime_points < 1000 -> "bronze"

C19_TierOfLifetimePoints ==
    \A c \in DOMAIN customers :
        customers[c].loyalty_tier = TierOf(customers[c].lifetime_points)

(***************************************************************************)
(* C20. Void reverses the sale's loyalty effects: a sale with a customer   *)
(* moves loyalty_points by earned - redeemed and lifetime_points by        *)
(* earned, and the void that follows it at once moves both back to their   *)
(* values before the sale.                                                 *)
(***************************************************************************)
\* the sale just created, for a customer
SaleJustCreated ==
    /\ response.op = "create_sale" /\ response.status = 201
    /\ sales[response.ref].customer_id \in DOMAIN customers

C20_VoidReversesLoyalty ==
    [][/\ response'.op = "create_sale" /\ response'.status = 201
          /\ sales'[response'.ref].customer_id \in DOMAIN customers
          => LET sale == sales'[response'.ref]
                 c == sale.customer_id
             IN /\ customers'[c].loyalty_points =
                       customers[c].loyalty_points + sale.points_earned
                           - sale.points_redeemed
                /\ customers'[c].lifetime_points =
                       customers[c].lifetime_points + sale.points_earned
       /\ SaleJustCreated /\ void_sale(response.ref)
          => LET sale == sales[response.ref]
                 c == sale.customer_id
             IN /\ response'.status = 200
                /\ customers'[c].loyalty_points =
                       customers[c].loyalty_points - sale.points_earned
                           + sale.points_redeemed
                /\ customers'[c].lifetime_points =
                       customers[c].lifetime_points - sale.points_earned]_vars

(***************************************************************************)
(* C21. Cancelled orders stay out of the receipt path: an update moves an  *)
(* order into cancelled only from pending or ordered, and no update moves  *)
(* a cancelled order to another status, so a cancelled order never         *)
(* credits stock.                                                          *)
(***************************************************************************)
C21_CancelledStaysCancelled ==
    [][\A p \in DOMAIN orders :
          response'.op = "update_purchase_order" /\ response'.ref = p =>
              /\ orders[p].status # "cancelled" /\ orders'[p].status = "cancelled"
                     => orders[p].status \in {"pending", "ordered"}
              /\ orders[p].status = "cancelled"
                     => /\ orders'[p].status = "cancelled"
                        /\ items' = items
                        /\ movements' = movements]_vars

(***************************************************************************)
(* C22. Deletion is limited to pending and cancelled orders: a delete      *)
(* removes the order only when its status is pending or cancelled; for an  *)
(* order that is ordered, partial or received the delete is rejected and   *)
(* the order and its lines remain.                                         *)
(***************************************************************************)
C22_DeleteOnlyPendingOrCancelled ==
    [][\A p \in DOMAIN orders :
          response'.op = "delete_purchase_order" /\ response'.ref = p =>
              IF orders[p].status \in {"pending", "cancelled"}
              THEN response'.status = 204 /\ p \notin DOMAIN orders'
              ELSE /\ response'.status = 400
                   /\ p \in DOMAIN orders' /\ orders'[p] = orders[p]]_vars

(***************************************************************************)
(* C23. Every movement written by an adjustment, a sale, a void or a       *)
(* receipt has stock_after = stock_before + quantity, its quantity signed  *)
(* (below zero for sale lines, above zero for void and receipt lines) and  *)
(* its stock_before the item's current_stock just before that line was    *)
(* applied.                                                                *)
(***************************************************************************)
\* the rows a step appends to the movement table
NewMovements == SubSeq(movements', Len(movements) + 1, Len(movements'))

RECURSIVE LinesApplied(_, _, _)
\* the rows ms, from row k on, applied one after the other to the stock t
LinesApplied(t, ms, k) ==
    IF k > Len(ms) THEN TRUE
    ELSE /\ ms[k].stock_before = t[ms[k].item_id]
         /\ ms[k].stock_after = ms[k].stock_before + ms[k].quantity
         /\ ms[k].movement_type = "sale" => ms[k].quantity < 0
         /\ ms[k].movement_type \in {"return_in", "purchase"} => ms[k].quantity > 0
         /\ LinesApplied([t EXCEPT ![ms[k].item_id] = ms[k].stock_after], ms, k + 1)

C23_MovementArithmetic ==
    [][LedgerStep =>
          LinesApplied([i \in ItemIds |-> items[i].current_stock], NewMovements, 1)]_vars

\* a cart of two lines on one item: the second row starts where the first ends
C23_Witness ==
    /\ response.op = "create_sale" /\ response.status = 201
    /\ Len(movements) = 2
    /\ movements[1].movement_type = "sale" /\ movements[2].movement_type = "sale"
    /\ movements[2].stock_before = movements[1].stock_after
    /\ movements[2].stock_after = 0

(***************************************************************************)
(* C24. The movement table is append-only with one row per applied change: *)
(* a successful adjustment appends one row, a successful sale, void or     *)
(* receipt one row per line, a rejected operation and every other          *)
(* operation (item creation, soft delete, CSV import, order creation and   *)
(* edit) none, and no step changes or removes a row already written.       *)
(***************************************************************************)
\* the number of rows the step is to append
RowsDue ==
    LET op == response'.op
        ok == response'.status < 400
    IN IF ~ok THEN 0
       ELSE IF op = "adjust_stock" THEN 1
       ELSE IF op = "create_sale" THEN Len(sales'[response'.ref].items)
       ELSE IF op = "void_sale" THEN Len(sales[response'.ref].items)
       ELSE IF op = "update_purchase_order"
               /\ orders'[response'.ref].status = "received"
       THEN Len(orders[response'.ref].items)
       ELSE 0

C24_AppendOnlyLedger ==
    [][/\ Len(movements') = Len(movements) + RowsDue
       /\ SubSeq(movements', 1, Len(movements)) = movements]_vars

\* a receipt of two lines, after which a soft delete of the item left both
\* rows in place
C24_Witness ==
    /\ response.op = "delete_inventory_item" /\ response.status = 204
    /\ Len(movements) = 2
    /\ movements[1].movement_type = "purchase" /\ movements[2].movement_type = "purchase"

(***************************************************************************)
(* C25. Reorder suggestions: exactly the active items of the supplier with *)
(* current_stock <= reorder_point are considered; the quantity is          *)
(* max_stock_level - current_stock if a maximum is set, else               *)
(* reorder_quantity if set, else twice the reorder point (20 when no       *)
(* reorder point is set); an item is suggested exactly when it is          *)
(* considered and its quantity is above zero.                              *)
(***************************************************************************)
SuggestedQuantity(item) ==
    IF item.max_stock_level # <<>> THEN item.max_stock_level[1] - item.current_stock
    ELSE IF item.reorder_quantity # <<>> THEN item.reorder_quantity[1]
    ELSE IF item.reorder_point # <<>> THEN 2 * item.reorder_point[1]
    ELSE 20

Considered(item, supplier_id) ==
    /\ item.is_active
    /\ item.supplier_id = supplier_id
    /\ item.reorder_point # <<>>
    /\ item.current_stock <= item.reorder_point[1]

C25_SuggestReorderPrecedence ==
    response.op = "suggest_po_items" =>
        \A i \in ItemIds :
            LET due == /\ Considered(items[i], response.ref.supplier_id)
                       /\ SuggestedQuantity(items[i]) > 0
            IN /\ i \in DOMAIN response.ref.suggestions <=> due
               /\ due => response.ref.suggestions[i] = SuggestedQuantity(items[i])

(***************************************************************************)
(* C26. One bad row never aborts the batch: an import of a file with a     *)
(* valid header is answered, and every row of it that passes validation    *)
(* is in the catalog afterwards, whatever the other rows hold (a row       *)
(* repeating the SKU of another row included).                             *)
(***************************************************************************)
\* the uploads of several rows with a valid header
BatchUploads ==
    {u \in Uploads : required_cols \subseteq u.file.fieldnames /\ Len(u.file.rows) >= 2}

C26_BadRowNeverAbortsBatch ==
    [][\A u \in BatchUploads :
          /\ response'.op = "import_inventory_csv"
          /\ import_inventory_csv(u.file, u.default_location)
          => /\ response'.status = 200
             /\ \A k \in PassedRows(u) :
                    /\ Strip(u.file.rows[k]["sku"]) \in DOMAIN items'
                    /\ items'[Strip(u.file.rows[k]["sku"])].selling_price = 1500500]_vars

(***************************************************************************)
(* C27. Sale header and lines agree: for every completed sale,             *)
(* total_amount is the sum of its lines' line_total minus the header's     *)
(* discount_amount.                                                        *)
(***************************************************************************)
C27_HeaderAndLinesAgree ==
    \A n \in DOMAIN sales :
        sales[n].status = "completed" =>
            sales[n].total_amount
                = SeqSum([k \in DOMAIN sales[n].items |-> sales[n].items[k].line_total])
                      - sales[n].discount_amount

(***************************************************************************)
(* C28. Import overwrites only the columns present: an import of a file    *)
(* whose header has no Stock column leaves the current_stock of every      *)
(* existing item as it was.                                                *)
(***************************************************************************)
\* the uploads with a valid header that has no Stock column
StocklessUploads ==
    {u \in Uploads : /\ required_cols \subseteq u.file.fieldnames
                     /\ "stock" \notin u.file.fieldnames}

C28_AbsentColumnsKept ==
    [][\A u \in StocklessUploads :
          /\ response'.op = "import_inventory_csv"
          /\ import_inventory_csv(u.file, u.default_location)
          => \A i \in ItemIds :
                 i \in DOMAIN items' /\ items'[i].current_stock = items[i].current_stock]_vars

(***************************************************************************)
(* C29. Re-import of an unmodified export is a no-op on the catalog: after *)
(* the import of the file just exported every active item has the          *)
(* current_stock, min_stock_level, selling_price, name and location it had *)
(* before, items whose min_stock_level was unset included.                 *)
(***************************************************************************)
C29_ReimportIsNoOp ==
    [][response.op = "export_inventory_csv" =>
          \A default_location \in 0 .. 1 :
              import_inventory_csv(response.ref, default_location) =>
                  \A i \in ItemIds :
                      items[i].is_active =>
                          /\ i \in DOMAIN items'
                          /\ items'[i].current_stock = items[i].current_stock
                          /\ items'[i].min_stock_level = items[i].min_stock_level
                          /\ items'[i].selling_price = items[i].selling_price
                          /\ items'[i].name = items[i].name
                          /\ items'[i].location_id = items[i].location_id]_vars

(***************************************************************************)
(* C30. Receipt stays exactly-once under concurrency: once two requests    *)
(* that move the same non-received order to received, both of which loaded *)
(* the order before either committed, have ended, the order has one        *)
(* purchase movement per line and the stock of each item has risen by the  *)
(* quantity of its lines once.                                             *)
(***************************************************************************)
\* the ended requests that moved order p to received
Receivers(p) ==
    {n \in DOMAIN sessions : /\ sessions[n].op = "update_purchase_order"
                             /\ sessions[n].request.po_id = p
                             /\ sessions[n].request.po_in.status = "received"
                             /\ sessions[n].pc = "done"}

\* two ended receipts of p, each of which had loaded the order still pending
ConcurrentReceipts(p) ==
    /\ Cardinality(Receivers(p)) = 2
    /\ \A n \in Receivers(p) : sessions[n].status = 200
    /\ \A n \in DOMAIN sessions : sessions[n].pc = "done"
    /\ \A n \in DOMAIN sessions : n \in Receivers(p)

C30_ReceiptOnceUnderConcurrency ==
    \A p \in DOMAIN orders :
        ConcurrentReceipts(p) =>
            /\ Len(ReceiptsOf(p)) = Len(orders[p].items)
            /\ \A i \in ItemIds :
                  items[i].current_stock = ReceiptStock + SoldOf(orders[p].items, i)

\* the stock rises once, the ledger has the receipt twice
C30_StockOnceMovementsTwice ==
    \A p \in DOMAIN orders :
        ConcurrentReceipts(p) =>
            /\ Len(ReceiptsOf(p)) = 2 * Len(orders[p].items)
            /\ \A i \in ItemIds :
                  items[i].current_stock = ReceiptStock + SoldOf(orders[p].items, i)

====
